---- MODULE Spec2Model ----
(***************************************************************************)
(* Corporate expense tracker: the Express/MongoDB expense API              *)
(* (server/routes/expenses.js), the user administration routes it depends  *)
(* on (routes/users.js), the stand-alone expense controller                *)
(* (server/controllers/expenseController.js) and the client-side scope     *)
(* filters (src/lib/expenseService.ts, src/lib/supabase.ts).               *)
(*                                                                         *)
(* Every request handler is one atomic action.  Amounts are integers       *)
(* (minor units).  A receipt file is a positive integer, receipt_url = 0   *)
(* is the empty string ''.                                                 *)
(***************************************************************************)
EXTENDS Integers, Sequences, FiniteSets, TLC

(* ------------------------------ bounds -------------------------------- *)
MaxExpenses == 2
MaxFiles == 2
MaxUserOps == 1
MaxRequests == 4
MaxInFlight == 3

(* ----------------------------- constants ------------------------------ *)
Users == {"u1", "u2", "u3"}
Roles == {"employee", "manager", "admin"}
Depts == {"Sales", "IT"}
STATUS_ALLOWED == {"draft", "pending", "approved", "rejected", "paid"}
Undef == "undefined"
NoUser == "null"
NoDate == 0
ExpenseIds == 1..MaxExpenses
FileIds == 1..MaxFiles
PageLimits == 1..(MaxExpenses + 1)

VARIABLES users, expenses, files, nextId, res, userOps, nreq,
          categories, reqs, provider, route

vars == <<users, expenses, files, nextId, res, userOps, nreq,
          categories, reqs, provider, route>>

\* The category collection, the requests whose handler is between two
\* database calls, the state of the client's ExpenseProvider and the route
\* the client renders.
sideVars == <<categories, reqs, provider, route>>

(* --------------------------- request bodies --------------------------- *)
\* A request body: every field is either absent (Undef) or carries a value.
Body(t, d, a, c, s, uid, dep) ==
  [title |-> t, description |-> d, amount |-> a, category |-> c,
   status |-> s, user_id |-> uid, user_department |-> dep]

\* Bodies sent to the create handlers: a plain one and one that also
\* carries status, user_id and user_department.
CreateBodies ==
  { Body("Lunch", Undef, "45", "Meals", Undef, Undef, Undef),
    Body("Lunch", Undef, "45", "Meals", "approved", "u1", "IT"),
    Body("Lunch", Undef, "0", "Meals", Undef, Undef, Undef) }

\* Bodies sent to the update handlers: all content fields, one content
\* field together with a user_department, or only a status.
UpdateBodies ==
  { Body("Taxi", "ride", "120", "Travel", Undef, Undef, Undef),
    Body("Taxi", Undef, Undef, Undef, Undef, Undef, "IT"),
    Body(Undef, Undef, Undef, Undef, "approved", Undef, Undef),
    Body(Undef, Undef, Undef, Undef, "paid", Undef, Undef) }

(* ------------------------------ helpers ------------------------------- *)
Min(S) == CHOOSE x \in S : \A y \in S : x <= y

\* authenticateToken that trusts a verified token without reading the user.
authenticateToken_TokenOnly(u) == TRUE

\* middleware/auth.js authenticateToken: the user record is re-read on every
\* request; a missing or inactive user is answered 401.
authenticateToken(u) == users[u].isActive

\* middleware/auth.js requireRole
requireRole(u, roles) == users[u].role \in roles

\* multer diskStorage: the upload is written under a fresh name before the
\* handler runs.  The name differs from every file on disk and from every
\* name a record refers to.
ReferencedFiles == { expenses[i].receipt_url : i \in DOMAIN expenses } \ {0}
FreeFiles == FileIds \ (files \cup ReferencedFiles)
CanUpload == FreeFiles # {}
UploadName == Min(FreeFiles)

\* removeFileIfExists(relativePath)
removeFileIfExists(fs, url) == IF url = 0 THEN fs ELSE fs \ {url}

\* Number of requests is capped to keep the model finite.  A request that
\* its handler serves in one piece leaves the category collection, the
\* requests in flight and the client alone.
Tick == nreq < MaxRequests /\ nreq' = nreq + 1 /\ UNCHANGED sideVars

(* -------------------------- access scope ------------------------------ *)
\* buildRoleScope with the employee branch scoped by department.
buildRoleScope_EmployeeByDept(u) ==
  IF users[u].role = "admin" THEN [field |-> "none", value |-> Undef]
  ELSE [field |-> "user_department", value |-> users[u].department]

\* buildRoleScope(user): a MongoDB filter document.
buildRoleScope(u) ==
  IF users[u].role = "admin" THEN [field |-> "none", value |-> Undef]
  ELSE IF users[u].role = "manager"
       THEN [field |-> "user_department", value |-> users[u].department]
       ELSE [field |-> "user_id", value |-> u]

\* Expense.find(q) / $match: does document e satisfy filter q
Matches(e, q) ==
  CASE q.field = "none" -> TRUE
    [] q.field = "user_department" -> e.user_department = q.value
    [] q.field = "user_id" -> e.user_id = q.value

Find(q) == { i \in DOMAIN expenses : Matches(expenses[i], q) }

(* ------------------------------- Init --------------------------------- *)
\* The users of the seed script: an employee and a manager of Sales (the
\* manager is the employee's managerId) and an admin of IT.  No expense has
\* been created through the API yet.
Init ==
  /\ users = [u \in Users |->
                CASE u = "u1" -> [role |-> "employee", department |-> "Sales", isActive |-> TRUE,
                                  managerId |-> "u2", email |-> "employee@company.com"]
                  [] u = "u2" -> [role |-> "manager", department |-> "Sales", isActive |-> TRUE,
                                  managerId |-> NoUser, email |-> "manager@company.com"]
                  [] u = "u3" -> [role |-> "admin", department |-> "IT", isActive |-> TRUE,
                                  managerId |-> NoUser, email |-> "admin@company.com"]]
  /\ expenses = << >>
  /\ files = {}
  /\ nextId = 1
  /\ res = [op |-> "none", user |-> NoUser, id |-> 0, code |-> 0]
  /\ userOps = 0
  /\ nreq = 0
  /\ categories = (1 :> [name |-> "meals", displayName |-> "Meals & Entertainment", isActive |-> TRUE])
                  @@ (2 :> [name |-> "travel", displayName |-> "Travel", isActive |-> TRUE])
  /\ reqs = << >>
  /\ provider = [expenses |-> << >>, currentExpense |-> 0, loading |-> FALSE, error |-> FALSE]
  /\ route = [isLoading |-> TRUE, user |-> NoUser, role |-> Undef, requiredRole |-> Undef]

\* The response to a request: the handler, the requester (NoUser for the
\* unauthenticated controller), the :id parameter (0 if none) and the HTTP code.
Reply(op, u, id, code) == res' = [op |-> op, user |-> u, id |-> id, code |-> code]

\* A failed request: only the response changes.
Fail(op, u, id, code) ==
  /\ Reply(op, u, id, code)
  /\ UNCHANGED <<users, expenses, files, nextId, userOps>>

(* ----------------------------- validators --------------------------- *)
\* parseFloat on the amount strings that requests carry.
parseFloat(s) ==
  CASE s = "45" -> 45
    [] s = "120" -> 120
    [] s = "0" -> 0

\* isFloat({ gt: 0 })
isFloatGt0(s) == parseFloat(s) > 0

isNonEmptyString(v) == v # Undef /\ v # ""

\* createValidators: title of at least 3 characters, amount > 0, category
\* a non-empty string.
createValidators(b) ==
  /\ b.title # Undef /\ Len(b.title) >= 3
  /\ b.amount # Undef /\ isFloatGt0(b.amount)
  /\ isNonEmptyString(b.category)

\* updateValidators: every field is optional; a present field is checked.
updateValidators(b) ==
  /\ b.title # Undef => Len(b.title) >= 3
  /\ b.amount # Undef => isFloatGt0(b.amount)
  /\ b.category # Undef => isNonEmptyString(b.category)
  /\ b.status # Undef => b.status \in STATUS_ALLOWED

(* ----------------------- routes/expenses.js --------------------------- *)
\* POST /api/expenses: the handler.
PostExpenseHandler(u, b, hasFile) ==
  /\ hasFile => CanUpload
  /\ IF ~authenticateToken(u) THEN Fail("create", u, 0, 401)
     ELSE IF ~createValidators(b) THEN Fail("create", u, 0, 400)
     ELSE /\ nextId <= MaxExpenses
          /\ expenses' = (nextId :> [title |-> b.title,
                                     description |-> IF b.description = Undef THEN "" ELSE b.description,
                                     amount |-> parseFloat(b.amount),
                                     category |-> b.category,
                                     status |-> "draft",
                                     user_id |-> u,
                                     user_department |-> IF users[u].department = "" THEN "general"
                                                         ELSE users[u].department,
                                     receipt_url |-> IF hasFile THEN UploadName ELSE 0,
                                     reviewed_by |-> NoUser,
                                     reviewed_at |-> NoDate,
                                     comments |-> << >>,
                                     createdAt |-> nextId]) @@ expenses
          /\ files' = IF hasFile THEN files \cup {UploadName} ELSE files
          /\ nextId' = nextId + 1
          /\ Reply("create", u, nextId, 201)
          /\ UNCHANGED <<users, userOps>>

\* POST /api/expenses, served in one piece.
PostExpense(u, b, hasFile) == Tick /\ PostExpenseHandler(u, b, hasFile)

\* The update document PUT builds from the body (only defined fields).
PutUpdate(e, b, hasFile, name) ==
  [e EXCEPT !.title = IF b.title # Undef THEN b.title ELSE @,
            !.description = IF b.description # Undef THEN b.description ELSE @,
            !.amount = IF b.amount # Undef THEN parseFloat(b.amount) ELSE @,
            !.category = IF b.category # Undef THEN b.category ELSE @,
            !.status = IF b.status # Undef THEN b.status ELSE @,
            !.receipt_url = IF hasFile THEN name ELSE @]

\* The guard of PUT: only the owner, only while draft.
PutAllowed(u, e) == e.user_id = u /\ e.status = "draft"

\* PUT /api/expenses/:id: the handler.
PutExpenseHandler(u, id, b, hasFile) ==
  /\ hasFile => CanUpload
  /\ IF ~authenticateToken(u) THEN Fail("update", u, id, 401)
     ELSE IF ~updateValidators(b) THEN Fail("update", u, id, 400)
     ELSE IF id \notin DOMAIN expenses THEN Fail("update", u, id, 404)
     ELSE IF expenses[id].user_id = NoUser
          THEN \* expense.user_id.toString() throws: 500, the upload stays on disk
               /\ Reply("update", u, id, 500)
               /\ files' = IF hasFile THEN files \cup {UploadName} ELSE files
               /\ UNCHANGED <<users, expenses, nextId, userOps>>
     ELSE IF ~PutAllowed(u, expenses[id]) THEN Fail("update", u, id, 403)
     ELSE /\ expenses' = [expenses EXCEPT ![id] = PutUpdate(@, b, hasFile, UploadName)]
          /\ files' = IF hasFile
                      THEN removeFileIfExists(files, expenses[id].receipt_url) \cup {UploadName}
                      ELSE files
          /\ Reply("update", u, id, 200)
          /\ UNCHANGED <<users, nextId, userOps>>

\* PUT /api/expenses/:id, served in one piece.
PutExpense(u, id, b, hasFile) == Tick /\ PutExpenseHandler(u, id, b, hasFile)

\* SubmitCode without the test of the draft status.
SubmitCode_NoDraftCheck(u, e) ==
  IF e.user_id = NoUser THEN 500
  ELSE IF e.user_id # u THEN 403
  ELSE 200

\* The guards of PATCH /:id/submit, in the order the handler tests them
\* (reading user_id._id of a record without owner throws: 500).
SubmitCode(u, e) ==
  IF e.user_id = NoUser THEN 500
  ELSE IF e.user_id # u THEN 403
  ELSE IF e.status # "draft" THEN 400
  ELSE 200

\* PATCH /api/expenses/:id/submit
SubmitExpense(u, id) ==
  /\ Tick
  /\ IF ~authenticateToken(u) THEN Fail("submit", u, id, 401)
     ELSE IF id \notin DOMAIN expenses THEN Fail("submit", u, id, 404)
     ELSE IF SubmitCode(u, expenses[id]) # 200 THEN Fail("submit", u, id, SubmitCode(u, expenses[id]))
     ELSE /\ expenses' = [expenses EXCEPT ![id].status = "pending"]
          /\ Reply("submit", u, id, 200)
          /\ UNCHANGED <<users, files, nextId, userOps>>

\* ReviewCode without the test of the pending status.
ReviewCode_NoPendingCheck(u, e) ==
  IF users[u].role = "manager" /\ e.user_department # users[u].department THEN 403
  ELSE 200

\* The guards of PATCH /:id/review after the role check.
ReviewCode(u, e) ==
  IF e.status # "pending" THEN 400
  ELSE IF users[u].role = "manager" /\ e.user_department # users[u].department THEN 403
  ELSE 200

\* PATCH /api/expenses/:id/review
ReviewExpense(u, id, action) ==
  /\ Tick
  /\ IF ~authenticateToken(u) THEN Fail("review", u, id, 401)
     ELSE IF ~requireRole(u, {"manager", "admin"}) THEN Fail("review", u, id, 403)
     ELSE IF action \notin {"approve", "reject"} THEN Fail("review", u, id, 400)
     ELSE IF id \notin DOMAIN expenses THEN Fail("review", u, id, 404)
     ELSE IF ReviewCode(u, expenses[id]) # 200 THEN Fail("review", u, id, ReviewCode(u, expenses[id]))
     ELSE /\ expenses' = [expenses EXCEPT ![id].status =
                             IF action = "approve" THEN "approved" ELSE "rejected"]
          /\ Reply("review", u, id, 200)
          /\ UNCHANGED <<users, files, nextId, userOps>>

\* models/Expense.js expenseSchema.methods.canApprove(userId, userRole,
\* userDepartment): that schema names the reviewable status 'submitted'.
canApprove(e, userRole) ==
  IF e.status # "submitted" THEN FALSE
  ELSE IF userRole = "admin" THEN TRUE
  ELSE IF userRole = "manager" THEN TRUE
  ELSE FALSE

\* canRemove / canDelete: owner while draft, or admin.
canRemove(u, e) == (e.user_id = u /\ e.status = "draft") \/ users[u].role = "admin"
canDelete(u, e) == (e.user_id = u /\ e.status = "draft") \/ users[u].role = "admin"

\* DELETE /api/expenses/:id/receipt
DeleteReceipt(u, id) ==
  /\ Tick
  /\ IF ~authenticateToken(u) THEN Fail("removeReceipt", u, id, 401)
     ELSE IF id \notin DOMAIN expenses THEN Fail("removeReceipt", u, id, 404)
     ELSE IF expenses[id].user_id = NoUser THEN Fail("removeReceipt", u, id, 500)
     ELSE IF ~canRemove(u, expenses[id]) THEN Fail("removeReceipt", u, id, 403)
     ELSE /\ files' = removeFileIfExists(files, expenses[id].receipt_url)
          /\ expenses' = [expenses EXCEPT ![id].receipt_url = 0]
          /\ Reply("removeReceipt", u, id, 200)
          /\ UNCHANGED <<users, nextId, userOps>>

\* DELETE /api/expenses/:id: the handler.
DeleteExpenseHandler(u, id) ==
  /\ IF ~authenticateToken(u) THEN Fail("delete", u, id, 401)
     ELSE IF id \notin DOMAIN expenses THEN Fail("delete", u, id, 404)
     ELSE IF expenses[id].user_id = NoUser THEN Fail("delete", u, id, 500)
     ELSE IF ~canDelete(u, expenses[id]) THEN Fail("delete", u, id, 403)
     ELSE /\ files' = removeFileIfExists(files, expenses[id].receipt_url)
          /\ expenses' = [i \in DOMAIN expenses \ {id} |-> expenses[i]]
          /\ Reply("delete", u, id, 200)
          /\ UNCHANGED <<users, nextId, userOps>>

\* DELETE /api/expenses/:id, served in one piece.
DeleteExpense(u, id) == Tick /\ DeleteExpenseHandler(u, id)

(* ------------- routes/expenses.js: storage errors --------------------- *)
\* The same handlers when a database call throws: the catch block answers 500
\* and does nothing else.  What the handler did before the call stays done.

\* POST /api/expenses, Expense.create throws: multer has written the upload.
PostExpenseDbError(u, b, hasFile) ==
  /\ Tick
  /\ hasFile => CanUpload
  /\ authenticateToken(u)
  /\ createValidators(b)
  /\ files' = IF hasFile THEN files \cup {UploadName} ELSE files
  /\ Reply("create", u, 0, 500)
  /\ UNCHANGED <<users, expenses, nextId, userOps>>

\* PUT /api/expenses/:id, Expense.findById or Expense.findByIdAndUpdate
\* throws: in the second case the previous receipt file is already removed.
PutExpenseDbError(u, id, b, hasFile, call) ==
  /\ Tick
  /\ hasFile => CanUpload
  /\ authenticateToken(u)
  /\ updateValidators(b)
  /\ IF call = "findById"
     THEN files' = IF hasFile THEN files \cup {UploadName} ELSE files
     ELSE /\ id \in DOMAIN expenses
          /\ expenses[id].user_id # NoUser
          /\ PutAllowed(u, expenses[id])
          /\ files' = IF hasFile
                      THEN removeFileIfExists(files, expenses[id].receipt_url) \cup {UploadName}
                      ELSE files
  /\ Reply("update", u, id, 500)
  /\ UNCHANGED <<users, expenses, nextId, userOps>>

\* PATCH /:id/submit, expense.save throws.
SubmitExpenseDbError(u, id) ==
  /\ Tick
  /\ authenticateToken(u)
  /\ id \in DOMAIN expenses
  /\ SubmitCode(u, expenses[id]) = 200
  /\ Fail("submit", u, id, 500)

\* PATCH /:id/review, expense.save throws.
ReviewExpenseDbError(u, id, action) ==
  /\ Tick
  /\ authenticateToken(u)
  /\ requireRole(u, {"manager", "admin"})
  /\ id \in DOMAIN expenses
  /\ ReviewCode(u, expenses[id]) = 200
  /\ Fail("review", u, id, 500)

\* DELETE /:id/receipt, expense.save throws: the file is already removed.
DeleteReceiptDbError(u, id) ==
  /\ Tick
  /\ authenticateToken(u)
  /\ id \in DOMAIN expenses
  /\ expenses[id].user_id # NoUser
  /\ canRemove(u, expenses[id])
  /\ files' = removeFileIfExists(files, expenses[id].receipt_url)
  /\ Reply("removeReceipt", u, id, 500)
  /\ UNCHANGED <<users, expenses, nextId, userOps>>

\* DELETE /:id, Expense.findByIdAndDelete throws: the file is already removed.
DeleteExpenseDbError(u, id) ==
  /\ Tick
  /\ authenticateToken(u)
  /\ id \in DOMAIN expenses
  /\ expenses[id].user_id # NoUser
  /\ canDelete(u, expenses[id])
  /\ files' = removeFileIfExists(files, expenses[id].receipt_url)
  /\ Reply("delete", u, id, 500)
  /\ UNCHANGED <<users, expenses, nextId, userOps>>

(* ------------------------- routes/users.js ---------------------------- *)
\* Bodies of PUT /api/users/:id: a transfer to another department or a
\* promotion to manager.
UserBodies ==
  { [department |-> "IT", role |-> Undef],
    [department |-> Undef, role |-> "manager"] }

\* PUT /api/users/:id (admin only)
UpdateUser(u, target, b) ==
  /\ Tick
  /\ IF ~authenticateToken(u) THEN Fail("updateUser", u, 0, 401)
     ELSE IF ~requireRole(u, {"admin"}) THEN Fail("updateUser", u, 0, 403)
     ELSE /\ userOps < MaxUserOps
          /\ userOps' = userOps + 1
          /\ users' = [users EXCEPT ![target].department =
                                       IF b.department # Undef THEN b.department ELSE @,
                                    ![target].role =
                                       IF b.role # Undef THEN b.role ELSE @]
          /\ Reply("updateUser", u, 0, 200)
          /\ UNCHANGED <<expenses, files, nextId>>

\* PATCH /api/users/:id/deactivate (admin only, not oneself)
DeactivateUser(u, target) ==
  /\ Tick
  /\ IF ~authenticateToken(u) THEN Fail("deactivateUser", u, 0, 401)
     ELSE IF ~requireRole(u, {"admin"}) THEN Fail("deactivateUser", u, 0, 403)
     ELSE IF target = u THEN Fail("deactivateUser", u, 0, 400)
     ELSE /\ userOps < MaxUserOps
          /\ userOps' = userOps + 1
          /\ users' = [users EXCEPT ![target].isActive = FALSE]
          /\ Reply("deactivateUser", u, 0, 200)
          /\ UNCHANGED <<expenses, files, nextId>>

\* PATCH /api/users/:id/activate (admin only)
ActivateUser(u, target) ==
  /\ Tick
  /\ IF ~authenticateToken(u) THEN Fail("activateUser", u, 0, 401)
     ELSE IF ~requireRole(u, {"admin"}) THEN Fail("activateUser", u, 0, 403)
     ELSE /\ userOps < MaxUserOps
          /\ userOps' = userOps + 1
          /\ users' = [users EXCEPT ![target].isActive = TRUE]
          /\ Reply("activateUser", u, 0, 200)
          /\ UNCHANGED <<expenses, files, nextId>>

(* ---------------- controllers/expenseController.js -------------------- *)
\* Mongoose validation of a new document: title and amount are required,
\* amount >= 0, status is one of the enum.
SchemaValid(b) ==
  /\ b.title # Undef
  /\ b.amount # Undef /\ parseFloat(b.amount) >= 0
  /\ b.status # Undef => b.status \in STATUS_ALLOWED

\* createExpense(req, res): no authentication, every field from the body.
createExpense(b) ==
  /\ Tick
  /\ IF ~SchemaValid(b) THEN Fail("ctlCreate", NoUser, 0, 500)
     ELSE /\ nextId <= MaxExpenses
          /\ expenses' = (nextId :> [title |-> b.title,
                                     description |-> IF b.description = Undef THEN "" ELSE b.description,
                                     amount |-> parseFloat(b.amount),
                                     category |-> IF b.category = Undef THEN "other" ELSE b.category,
                                     status |-> IF b.status = Undef \/ b.status = "" THEN "pending"
                                                ELSE b.status,
                                     user_id |-> IF b.user_id = Undef THEN NoUser ELSE b.user_id,
                                     user_department |-> b.user_department,
                                     receipt_url |-> 0,
                                     reviewed_by |-> NoUser,
                                     reviewed_at |-> NoDate,
                                     comments |-> << >>,
                                     createdAt |-> nextId]) @@ expenses
          /\ nextId' = nextId + 1
          /\ Reply("ctlCreate", NoUser, nextId, 201)
          /\ UNCHANGED <<users, files, userOps>>

\* findByIdAndUpdate(id, req.body): every defined field of the body is set.
BodyUpdate(e, b) ==
  [e EXCEPT !.title = IF b.title # Undef THEN b.title ELSE @,
            !.description = IF b.description # Undef THEN b.description ELSE @,
            !.amount = IF b.amount # Undef THEN parseFloat(b.amount) ELSE @,
            !.category = IF b.category # Undef THEN b.category ELSE @,
            !.status = IF b.status # Undef THEN b.status ELSE @,
            !.user_id = IF b.user_id # Undef THEN b.user_id ELSE @,
            !.user_department = IF b.user_department # Undef THEN b.user_department ELSE @]

\* updateExpense(req, res): no authentication, no guard.
updateExpense(id, b) ==
  /\ Tick
  /\ IF id \notin DOMAIN expenses THEN Fail("ctlUpdate", NoUser, id, 404)
     ELSE /\ expenses' = [expenses EXCEPT ![id] = BodyUpdate(@, b)]
          /\ Reply("ctlUpdate", NoUser, id, 200)
          /\ UNCHANGED <<users, files, nextId, userOps>>

\* deleteExpense(req, res): no authentication, no guard, the file stays.
deleteExpense(id) ==
  /\ Tick
  /\ IF id \notin DOMAIN expenses THEN Fail("ctlDelete", NoUser, id, 404)
     ELSE /\ expenses' = [i \in DOMAIN expenses \ {id} |-> expenses[i]]
          /\ Reply("ctlDelete", NoUser, id, 200)
          /\ UNCHANGED <<users, files, nextId, userOps>>

(* --------------------------- read endpoints --------------------------- *)
\* .sort({ createdAt: -1 }): the ids of S, newest first.
RECURSIVE SortByCreatedAtDesc(_)
SortByCreatedAtDesc(S) ==
  IF S = {} THEN << >>
  ELSE LET newest == CHOOSE i \in S : \A j \in S : expenses[j].createdAt <= expenses[i].createdAt
       IN <<newest>> \o SortByCreatedAtDesc(S \ {newest})

\* GET /api/expenses?page&limit without filters: the ids on one page.
ListExpenses(u, page, limit) ==
  LET sorted == SortByCreatedAtDesc(Find(buildRoleScope(u)))
      skip == (page - 1) * limit
  IN SubSeq(sorted, skip + 1, IF skip + limit < Len(sorted) THEN skip + limit ELSE Len(sorted))

\* pagination.total = Math.ceil(total / limit), pagination.count = total
PageCount(u, limit) == (Cardinality(Find(buildRoleScope(u))) + limit - 1) \div limit

\* All pages of the listing, page 1 first.
RECURSIVE PagesUpTo(_, _, _)
PagesUpTo(u, limit, n) ==
  IF n = 0 THEN << >> ELSE PagesUpTo(u, limit, n - 1) \o ListExpenses(u, n, limit)

AllPages(u, limit) == PagesUpTo(u, limit, PageCount(u, limit))

\* GET /api/expenses/:id: canAccess
canAccess(u, e) ==
  \/ users[u].role = "admin"
  \/ e.user_id = u
  \/ (users[u].role = "manager" /\ e.user_department = users[u].department)

\* getUserExpenses: GET per-user listing of the controller, no authentication
\* and no scope: every expense of :userId.
getUserExpenses(userId) == { i \in DOMAIN expenses : expenses[i].user_id = userId }

\* GET /api/expenses/stats/summary and /stats/monthly: the documents that pass
\* the $match stage and are counted in the aggregates.
StatsMatch(u) == Find(buildRoleScope(u))

\* totalExpenses of the summary: the sum of the per-status counts.
totalExpenses(u) ==
  LET n[S \in SUBSET STATUS_ALLOWED] ==
        IF S = {} THEN 0
        ELSE LET st == CHOOSE x \in S : TRUE
             IN Cardinality({ i \in StatsMatch(u) : expenses[i].status = st }) + n[S \ {st}]
  IN n[STATUS_ALLOWED]

(* ----------------------- client-side scope filters -------------------- *)
\* lib/expenseService.ts ExpenseService.getExpensesByRole(currentUser, allExpenses)
getExpensesByRole(u, all) ==
  IF users[u].role = "admin" THEN all
  ELSE IF users[u].role = "manager"
       THEN { i \in all : expenses[i].user_department = users[u].department
                          \/ expenses[i].user_id = u }
       ELSE { i \in all : expenses[i].user_id = u }

\* lib/supabase.ts getExpenses(currentUser)
getExpenses(u) ==
  IF users[u].role = "admin" THEN DOMAIN expenses
  ELSE IF users[u].role = "manager"
       THEN { i \in DOMAIN expenses : expenses[i].user_department = users[u].department }
       ELSE { i \in DOMAIN expenses : expenses[i].user_id = u }

(* ----------------------------- statistics ---------------------------- *)
\* { $sum: '$amount' } over a set of documents / reduce((sum, e) => sum + e.amount, 0)
RECURSIVE SumAmount(_)
SumAmount(S) ==
  IF S = {} THEN 0
  ELSE LET i == CHOOSE x \in S : TRUE
       IN expenses[i].amount + SumAmount(S \ {i})

\* GET /stats/summary, first pipeline: one row per status that occurs.
statusStats(u) ==
  LET S == StatsMatch(u)
  IN [st \in { expenses[i].status : i \in S } |->
        [count |-> Cardinality({ i \in S : expenses[i].status = st }),
         totalAmount |-> SumAmount({ i \in S : expenses[i].status = st })]]

\* GET /stats/summary, second pipeline: one row per category that occurs.
categoryStats(u) ==
  LET S == StatsMatch(u)
  IN [c \in { expenses[i].category : i \in S } |->
        [count |-> Cardinality({ i \in S : expenses[i].category = c }),
         totalAmount |-> SumAmount({ i \in S : expenses[i].category = c })]]

\* statusStats.reduce(...): the sum of one column of the rows.
RECURSIVE SumCount(_)
SumCount(rows) ==
  IF DOMAIN rows = {} THEN 0
  ELSE LET k == CHOOSE x \in DOMAIN rows : TRUE
       IN rows[k].count + SumCount([j \in DOMAIN rows \ {k} |-> rows[j]])

RECURSIVE SumTotalAmount(_)
SumTotalAmount(rows) ==
  IF DOMAIN rows = {} THEN 0
  ELSE LET k == CHOOSE x \in DOMAIN rows : TRUE
       IN rows[k].totalAmount + SumTotalAmount([j \in DOMAIN rows \ {k} |-> rows[j]])

\* The flat totals of the summary.
totals(u) ==
  [totalExpenses |-> SumCount(statusStats(u)),
   totalAmount |-> SumTotalAmount(statusStats(u))]

\* lib/expenseService.ts ExpenseService.getDashboardStats(currentUser, expenses)
getDashboardStats(u, all) ==
  LET userExpenses == getExpensesByRole(u, all)
      n(st) == Cardinality({ i \in userExpenses : expenses[i].status = st })
  IN [totalExpenses |-> Cardinality(userExpenses),
      totalAmount |-> SumAmount(userExpenses),
      pendingExpenses |-> n("pending"),
      approvedExpenses |-> n("approved"),
      rejectedExpenses |-> n("rejected"),
      draftExpenses |-> n("draft"),
      approvedAmount |-> SumAmount({ i \in userExpenses : expenses[i].status = "approved" })]

\* lib/expenseService.ts ExpenseService.getCategoryData(currentUser, expenses)
getCategoryData(u, all) ==
  LET userExpenses == getExpensesByRole(u, all)
      cat(i) == IF expenses[i].category = "" THEN "Other" ELSE expenses[i].category
  IN [c \in { cat(i) : i \in userExpenses } |->
        [count |-> Cardinality({ i \in userExpenses : cat(i) = c }),
         totalAmount |-> SumAmount({ i \in userExpenses : cat(i) = c })]]

\* The clock, in months since January 2024: the first expense is created in
\* January 2024, the second and third in January 2025, and so on.
createdAtMonth(t) == 12 * (t \div 2)

\* $year / $month of a createdAt timestamp
year(t) == 2024 + (createdAtMonth(t) \div 12)
month(t) == (createdAtMonth(t) % 12) + 1

\* GET /stats/monthly: one row per { y, m } that occurs.
monthlyStats(u) ==
  LET S == StatsMatch(u)
      key(i) == <<year(expenses[i].createdAt), month(expenses[i].createdAt)>>
  IN [k \in { key(i) : i \in S } |->
        [expenses |-> SumAmount({ i \in S : key(i) = k }),
         approved |-> SumAmount({ i \in S : key(i) = k /\ expenses[i].status = "approved" }),
         pending |-> SumAmount({ i \in S : key(i) = k /\ expenses[i].status = "pending" })]]

\* new Date(created_at).toLocaleDateString('en-US', { month: 'short' })
toLocaleMonthShort(t) ==
  <<"Jan", "Feb", "Mar", "Apr", "May", "Jun",
    "Jul", "Aug", "Sep", "Oct", "Nov", "Dec">>[month(t)]

\* lib/expenseService.ts ExpenseService.getMonthlyData(currentUser, expenses)
getMonthlyData(u, all) ==
  LET userExpenses == getExpensesByRole(u, all)
      label(i) == toLocaleMonthShort(expenses[i].createdAt)
  IN [k \in { label(i) : i \in userExpenses } |->
        [expenses |-> SumAmount({ i \in userExpenses : label(i) = k }),
         approved |-> SumAmount({ i \in userExpenses : label(i) = k /\ expenses[i].status = "approved" }),
         pending |-> SumAmount({ i \in userExpenses : label(i) = k /\ expenses[i].status = "pending" })]]

(* --------------------------- user listings ---------------------------- *)
\* GET /api/users/team (manager and admin): the query and its result.
teamMembers(u) ==
  IF users[u].role = "manager"
  THEN { v \in Users : users[v].managerId = u /\ users[v].isActive }
  ELSE IF users[u].role = "admin"
       THEN { v \in Users : users[v].isActive }
       ELSE Users

\* The HTTP code of GET /api/users/team.
TeamCode(u) ==
  IF ~authenticateToken(u) THEN 401
  ELSE IF ~requireRole(u, {"manager", "admin"}) THEN 403
  ELSE 200

\* lib/supabase.ts getUsersByRole(currentUser)
getUsersByRole(u) ==
  IF users[u].role = "admin" THEN Users
  ELSE IF users[u].role = "manager"
       THEN { v \in Users : users[v].department = users[u].department }
       ELSE { v \in Users : v = u }

\* lib/expenseService.ts ExpenseService.getTeamMembersByRole(currentUser, allUsers)
getTeamMembersByRole(u, allUsers) ==
  IF users[u].role = "admin" THEN allUsers
  ELSE IF users[u].role = "manager"
       THEN { v \in allUsers : users[v].department = users[u].department \/ v = u }
       ELSE { v \in allUsers : v = u }

(* --------------------------- specifications --------------------------- *)
\* The server as server.js mounts it: the expense router and the user router.
Next ==
  \/ \E u \in Users, b \in CreateBodies, hasFile \in BOOLEAN : PostExpense(u, b, hasFile)
  \/ \E u \in Users, id \in ExpenseIds, b \in UpdateBodies, hasFile \in BOOLEAN :
        PutExpense(u, id, b, hasFile)
  \/ \E u \in Users, id \in ExpenseIds : SubmitExpense(u, id)
  \/ \E u \in Users, id \in ExpenseIds, action \in {"approve", "reject"} :
        ReviewExpense(u, id, action)
  \/ \E u \in Users, id \in ExpenseIds : DeleteReceipt(u, id)
  \/ \E u \in Users, id \in ExpenseIds : DeleteExpense(u, id)
  \/ \E u \in Users, target \in Users, b \in UserBodies : UpdateUser(u, target, b)
  \/ \E u \in Users, target \in Users : DeactivateUser(u, target)
  \/ \E u \in Users, target \in Users : ActivateUser(u, target)

Spec == Init /\ [][Next]_vars

\* The same server together with the handlers of expenseController.js.
ApiNext ==
  \/ Next
  \/ \E b \in CreateBodies : createExpense(b)
  \/ \E id \in ExpenseIds, b \in UpdateBodies : updateExpense(id, b)
  \/ \E id \in ExpenseIds : deleteExpense(id)

ApiSpec == Init /\ [][ApiNext]_vars

\* The mounted server with a database whose calls may throw.
DbNext ==
  \/ Next
  \/ \E u \in Users, b \in CreateBodies, hasFile \in BOOLEAN : PostExpenseDbError(u, b, hasFile)
  \/ \E u \in Users, id \in ExpenseIds, b \in UpdateBodies, hasFile \in BOOLEAN,
        call \in {"findById", "findByIdAndUpdate"} : PutExpenseDbError(u, id, b, hasFile, call)
  \/ \E u \in Users, id \in ExpenseIds : SubmitExpenseDbError(u, id)
  \/ \E u \in Users, id \in ExpenseIds, action \in {"approve", "reject"} :
        ReviewExpenseDbError(u, id, action)
  \/ \E u \in Users, id \in ExpenseIds : DeleteReceiptDbError(u, id)
  \/ \E u \in Users, id \in ExpenseIds : DeleteExpenseDbError(u, id)

DbSpec == Init /\ [][DbNext]_vars

(* ------------- routes/auth.js and routes/users.js: e-mail ------------- *)
\* The handlers that write User.email, one action per database call; a
\* request between two calls is in reqs.

\* E-mail addresses that requests carry.
Emails == {"new@company.com", "New@company.com", "admin@company.com"}

\* String.prototype.toLowerCase on the strings that requests carry.
toLowerCase(e) ==
  CASE e = "New@company.com" -> "new@company.com"
    [] e = "Meals" -> "meals"
    [] e = "Travel" -> "travel"
    [] e = "Hotel" -> "hotel"
    [] OTHER -> e

\* express-validator normalizeEmail(): the address in lower case.
normalizeEmail(e) == toLowerCase(e)

\* The ids MongoDB gives to new users.
NewUserIds == <<"u4", "u5", "u6", "u7">>

\* A unique index on email that compares the exact strings.
UniqueEmailIndex_CaseSensitive(us, id, email) ==
  \A v \in DOMAIN us : v # id => us[v].email # email

\* The User collection's index on email: unique, compared without case.
\* A write that breaks it throws.
UniqueEmailIndex(us, id, email) ==
  \A v \in DOMAIN us : v # id => toLowerCase(us[v].email) # toLowerCase(email)

\* A request joins the requests in flight / a request in flight moves on.
Begin(r) == reqs' = Append(reqs, r)
Finish(k, code) == reqs' = [reqs EXCEPT ![k].pc = "done", ![k].code = code]

RegUnchanged == UNCHANGED <<expenses, files, nextId, res, userOps, nreq, categories, provider, route>>

\* POST /api/auth/register up to User.findOne({ email }): 400 if a user with
\* this very address exists.
RegisterFindOne(email) ==
  /\ Len(reqs) < MaxInFlight
  /\ Begin([op |-> "register", user |-> NoUser, target |-> NoUser, email |-> email,
            pc |-> IF \E v \in DOMAIN users : users[v].email = email THEN "done" ELSE "save",
            code |-> IF \E v \in DOMAIN users : users[v].email = email THEN 400 ELSE 0])
  /\ UNCHANGED users
  /\ RegUnchanged

\* POST /api/auth/register, user.save(): 201, or 500 when the save throws.
RegisterSave(k) ==
  /\ reqs[k].op = "register" /\ reqs[k].pc = "save"
  /\ Cardinality(DOMAIN users \ Users) < Len(NewUserIds)
  /\ LET id == NewUserIds[Cardinality(DOMAIN users \ Users) + 1]
     IN IF UniqueEmailIndex(users, id, reqs[k].email)
        THEN /\ users' = (id :> [role |-> "employee", department |-> "Sales",
                                isActive |-> TRUE, managerId |-> NoUser,
                                email |-> reqs[k].email]) @@ users
             /\ Finish(k, 201)
        ELSE /\ UNCHANGED users
             /\ Finish(k, 500)
  /\ RegUnchanged

\* PUT /api/users/:id with an email, up to the User.findOne({ email, _id: {$ne} })
UserUpdateFindOne(u, target, rawEmail) ==
  /\ Len(reqs) < MaxInFlight
  /\ LET email == normalizeEmail(rawEmail)
         code == IF ~authenticateToken(u) THEN 401
                 ELSE IF ~requireRole(u, {"admin"}) THEN 403
                 ELSE IF target \notin DOMAIN users THEN 404
                 ELSE IF /\ email # users[target].email
                         /\ \E v \in DOMAIN users \ {target} : users[v].email = email
                      THEN 400
                 ELSE 0
     IN Begin([op |-> "updateUser", user |-> u, target |-> target, email |-> email,
               pc |-> IF code = 0 THEN "save" ELSE "done", code |-> code])
  /\ UNCHANGED users
  /\ RegUnchanged

\* PUT /api/users/:id, User.findByIdAndUpdate: 200, or 500 when it throws.
UserUpdateWrite(k) ==
  /\ reqs[k].op = "updateUser" /\ reqs[k].pc = "save"
  /\ IF UniqueEmailIndex(users, reqs[k].target, reqs[k].email)
     THEN /\ users' = [users EXCEPT ![reqs[k].target].email = reqs[k].email]
          /\ Finish(k, 200)
     ELSE /\ UNCHANGED users
          /\ Finish(k, 500)
  /\ RegUnchanged

RegNext ==
  \/ \E email \in Emails : RegisterFindOne(email)
  \/ \E k \in DOMAIN reqs : RegisterSave(k)
  \/ \E u \in {"u1", "u3"}, target \in DOMAIN users, email \in Emails :
        UserUpdateFindOne(u, target, email)
  \/ \E k \in DOMAIN reqs : UserUpdateWrite(k)

RegSpec == Init /\ [][RegNext]_vars

(* ------------------------ routes/categories.js ------------------------ *)
\* Names that category requests carry.
CategoryNames == {"Meals", "Hotel", "hotel"}

\* name.toLowerCase(): the internal name the route looks up and stores.
internalName(name) == toLowerCase(name)

\* A Category collection without an index on name: every write goes through.
UniqueNameIndex_None(cs, name) == TRUE

\* The Category collection's unique index on name: a write that breaks it
\* throws.
UniqueNameIndex(cs, name) == \A i \in DOMAIN cs : cs[i].name # name

CatUnchanged == UNCHANGED <<users, expenses, files, nextId, res, userOps, nreq, provider, route>>

\* The code authenticateToken and requireRole(['admin']) answer, 0 if they pass.
AdminCode(u) ==
  IF ~authenticateToken(u) THEN 401
  ELSE IF ~requireRole(u, {"admin"}) THEN 403
  ELSE 0

\* POST /api/categories up to Category.findOne({ name: name.toLowerCase() })
CreateCategoryFindOne(u, name) ==
  /\ Len(reqs) < MaxInFlight
  /\ LET code == IF AdminCode(u) # 0 THEN AdminCode(u)
                 ELSE IF Len(name) < 2 THEN 400
                 ELSE IF \E i \in DOMAIN categories : categories[i].name = internalName(name)
                      THEN 400
                 ELSE 0
     IN Begin([op |-> "createCategory", user |-> u, id |-> 0, name |-> name,
               pc |-> IF code = 0 THEN "save" ELSE "done", code |-> code])
  /\ UNCHANGED categories
  /\ CatUnchanged

\* POST /api/categories, category.save(): 201, or 500 when the save throws.
CreateCategorySave(k) ==
  /\ reqs[k].op = "createCategory" /\ reqs[k].pc = "save"
  /\ LET id == IF DOMAIN categories = {} THEN 1
               ELSE 1 + (CHOOSE i \in DOMAIN categories : \A j \in DOMAIN categories : j <= i)
     IN IF UniqueNameIndex(categories, internalName(reqs[k].name))
        THEN /\ categories' = (id :> [name |-> internalName(reqs[k].name),
                                      displayName |-> reqs[k].name,
                                      isActive |-> TRUE]) @@ categories
             /\ Finish(k, 201)
        ELSE /\ UNCHANGED categories
             /\ Finish(k, 500)
  /\ CatUnchanged

\* Bodies of PUT /api/categories/:id
CategoryBodies ==
  { [displayName |-> "Food", isActive |-> Undef],
    [displayName |-> Undef, isActive |-> "true"] }

\* PUT /api/categories/:id
UpdateCategory(u, id, b) ==
  /\ Len(reqs) < MaxInFlight
  /\ LET code == IF AdminCode(u) # 0 THEN AdminCode(u)
                 ELSE IF id \notin DOMAIN categories THEN 404
                 ELSE 200
     IN /\ Begin([op |-> "updateCategory", user |-> u, id |-> id, name |-> Undef,
                  pc |-> "done", code |-> code])
        /\ categories' =
             IF code # 200 THEN categories
             ELSE [categories EXCEPT
                     ![id].displayName = IF b.displayName # Undef THEN b.displayName ELSE @,
                     ![id].isActive = IF b.isActive # Undef THEN b.isActive = "true" ELSE @]
  /\ CatUnchanged

\* DELETE /api/categories/:id that removes the document.
DeleteCategory_Remove(u, id) ==
  /\ Len(reqs) < MaxInFlight
  /\ LET code == IF AdminCode(u) # 0 THEN AdminCode(u)
                 ELSE IF id \notin DOMAIN categories THEN 404
                 ELSE 200
     IN /\ Begin([op |-> "deleteCategory", user |-> u, id |-> id, name |-> Undef,
                  pc |-> "done", code |-> code])
        /\ categories' = IF code # 200 THEN categories
                         ELSE [i \in DOMAIN categories \ {id} |-> categories[i]]
  /\ CatUnchanged

\* DELETE /api/categories/:id: the category is deactivated.
DeleteCategory(u, id) ==
  /\ Len(reqs) < MaxInFlight
  /\ LET code == IF AdminCode(u) # 0 THEN AdminCode(u)
                 ELSE IF id \notin DOMAIN categories THEN 404
                 ELSE 200
     IN /\ Begin([op |-> "deleteCategory", user |-> u, id |-> id, name |-> Undef,
                  pc |-> "done", code |-> code])
        /\ categories' = IF code # 200 THEN categories
                         ELSE [categories EXCEPT ![id].isActive = FALSE]
  /\ CatUnchanged

\* GET /api/categories: Category.find({ isActive: true })
listCategories == { i \in DOMAIN categories : categories[i].isActive }

\* The category routes, next to the creation of an expense that names a
\* category.
CatNext ==
  \/ \E u \in {"u1", "u3"}, name \in CategoryNames : CreateCategoryFindOne(u, name)
  \/ \E k \in DOMAIN reqs : CreateCategorySave(k)
  \/ \E u \in {"u1", "u3"}, id \in 1..3, b \in CategoryBodies : UpdateCategory(u, id, b)
  \/ \E u \in {"u1", "u3"}, id \in 1..3 : DeleteCategory(u, id)
  \/ \E b \in CreateBodies : nextId = 1 /\ createValidators(b) /\ PostExpense("u1", b, FALSE)

CatSpec == Init /\ [][CatNext]_vars

(* ------------------- pages/team/TeamMembers.tsx ----------------------- *)
\* deleteUser(userId): the record is deleted from the users table, or
\* spliced out of the stored list.
deleteUser(userId) ==
  users' = [v \in DOMAIN users \ {userId} |-> users[v]]

\* handleDeleteUser(userId, userName) on the team page, which an employee
\* is not shown: a manager is refused a user of another department, the
\* confirm dialog may be cancelled, otherwise the user is deleted.
handleDeleteUser(cur, userId, confirm) ==
  /\ users[cur].role # "employee"
  /\ Tick
  /\ IF users[cur].role = "manager" /\ users[userId].department # users[cur].department
       THEN Fail("deleteUser", cur, 0, 403)
     ELSE IF ~confirm THEN Fail("deleteUser", cur, 0, 0)
     ELSE /\ deleteUser(userId)
          /\ Reply("deleteUser", cur, 0, 200)
          /\ UNCHANGED <<expenses, files, nextId, userOps>>

\* User management: the user routes and the team page.
TeamNext ==
  \/ \E u \in DOMAIN users, target \in DOMAIN users, b \in UserBodies : UpdateUser(u, target, b)
  \/ \E u \in DOMAIN users, target \in DOMAIN users : DeactivateUser(u, target)
  \/ \E u \in DOMAIN users, target \in DOMAIN users : ActivateUser(u, target)
  \/ \E cur \in DOMAIN users, userId \in DOMAIN users, confirm \in BOOLEAN :
        handleDeleteUser(cur, userId, confirm)

TeamSpec == Init /\ [][TeamNext]_vars

(* ------------- routes/expenses.js: review comment, comments ------------ *)
\* The comment texts that requests carry; the review's comment is optional.
CommentTexts == {"ok", ""}

\* PATCH /:id/review with a body {action, comment}: comment is read from the
\* body and not used, the save writes the status only.
ReviewWithComment(u, id, action, comment) == ReviewExpense(u, id, action)

\* canComment: admin, owner, or manager of the expense's department.
canComment(u, e) ==
  \/ users[u].role = "admin"
  \/ e.user_id = u
  \/ (users[u].role = "manager" /\ e.user_department = users[u].department)

\* POST /api/expenses/:id/comments: after the checks the expense is saved as
\* it was loaded.
AddComment(u, id, text) ==
  /\ Tick
  /\ IF ~authenticateToken(u) THEN Fail("addComment", u, id, 401)
     ELSE IF text = "" THEN Fail("addComment", u, id, 400)
     ELSE IF id \notin DOMAIN expenses THEN Fail("addComment", u, id, 404)
     ELSE IF ~canComment(u, expenses[id]) THEN Fail("addComment", u, id, 403)
     ELSE /\ expenses' = expenses
          /\ Reply("addComment", u, id, 200)
          /\ UNCHANGED <<users, files, nextId, userOps>>

\* Creation, submission, review and comments.
CommentNext ==
  \/ \E u \in Users, b \in CreateBodies : PostExpense(u, b, FALSE)
  \/ \E u \in Users, id \in ExpenseIds : SubmitExpense(u, id)
  \/ \E u \in Users, id \in ExpenseIds, action \in {"approve", "reject"},
        comment \in {Undef, "ok"} : ReviewWithComment(u, id, action, comment)
  \/ \E u \in Users, id \in ExpenseIds, text \in CommentTexts : AddComment(u, id, text)

CommentSpec == Init /\ [][CommentNext]_vars

(* --------- routes/expenses.js: review, one database call a step -------- *)
RaceUnchanged == UNCHANGED <<users, files, nextId, res, userOps, nreq, categories, provider, route>>

\* PATCH /:id/review up to the guards on the expense that Expense.findById
\* returned.
ReviewRead(u, id, action) ==
  /\ Len(reqs) < MaxInFlight
  /\ LET code == IF ~authenticateToken(u) THEN 401
                 ELSE IF ~requireRole(u, {"manager", "admin"}) THEN 403
                 ELSE IF id \notin DOMAIN expenses THEN 404
                 ELSE ReviewCode(u, expenses[id])
     IN Begin([op |-> "review", user |-> u, id |-> id, action |-> action,
               pc |-> IF code = 200 THEN "save" ELSE "done",
               code |-> IF code = 200 THEN 0 ELSE code])
  /\ UNCHANGED expenses
  /\ RaceUnchanged

\* A save that writes only while the stored status is still pending.
ReviewSave_IfPending(k) ==
  /\ reqs[k].op = "review" /\ reqs[k].pc = "save"
  /\ IF reqs[k].id \in DOMAIN expenses /\ expenses[reqs[k].id].status = "pending"
     THEN /\ expenses' = [expenses EXCEPT ![reqs[k].id].status =
                             IF reqs[k].action = "approve" THEN "approved" ELSE "rejected"]
          /\ Finish(k, 200)
     ELSE /\ UNCHANGED expenses
          /\ Finish(k, 500)
  /\ RaceUnchanged

\* PATCH /:id/review, expense.save(): the status set on the loaded document
\* is written to the stored one, whatever its status is by now; 500 when
\* the document is gone.
ReviewSave(k) ==
  /\ reqs[k].op = "review" /\ reqs[k].pc = "save"
  /\ IF reqs[k].id \in DOMAIN expenses
     THEN /\ expenses' = [expenses EXCEPT ![reqs[k].id].status =
                             IF reqs[k].action = "approve" THEN "approved" ELSE "rejected"]
          /\ Finish(k, 200)
     ELSE /\ UNCHANGED expenses
          /\ Finish(k, 500)
  /\ RaceUnchanged

\* The expense the interleaved requests are about: the first one created.
RaceExpense == 1

\* One expense is created and submitted by its owner; review requests of
\* the manager and the admin interleave.
ReviewRaceNext ==
  \/ \E b \in CreateBodies : nextId = 1 /\ createValidators(b) /\ PostExpense("u1", b, FALSE)
  \/ SubmitExpense("u1", RaceExpense)
  \/ \E u \in {"u2", "u3"}, action \in {"approve", "reject"} : ReviewRead(u, RaceExpense, action)
  \/ \E k \in DOMAIN reqs : ReviewSave(k)

ReviewRaceSpec == Init /\ [][ReviewRaceNext]_vars

(* ---------- routes/expenses.js: edit, one database call a step --------- *)
\* Bodies of the owner's edit: new content, or only the status draft.
EditBodies ==
  { Body("Taxi", "ride", "120", "Travel", Undef, Undef, Undef),
    Body(Undef, Undef, Undef, Undef, "draft", Undef, Undef) }

\* PUT /:id up to the call of Expense.findByIdAndUpdate: the upload is on
\* disk, the guards run on the expense that Expense.findById returned, the
\* previous receipt file is removed and the update document is built.
PutRead(u, id, b, hasFile) ==
  /\ Len(reqs) < MaxInFlight
  /\ hasFile => CanUpload
  /\ LET code == IF ~authenticateToken(u) THEN 401
                 ELSE IF ~updateValidators(b) THEN 400
                 ELSE IF id \notin DOMAIN expenses THEN 404
                 ELSE IF expenses[id].user_id = NoUser THEN 500
                 ELSE IF ~PutAllowed(u, expenses[id]) THEN 403
                 ELSE 0
     IN /\ Begin([op |-> "update", user |-> u, id |-> id, body |-> b,
                  hasFile |-> hasFile, name |-> IF hasFile THEN UploadName ELSE 0,
                  pc |-> IF code = 0 THEN "write" ELSE "done", code |-> code])
        /\ files' = IF hasFile /\ code = 500 THEN files \cup {UploadName}
                    ELSE IF hasFile /\ code = 0
                         THEN removeFileIfExists(files, expenses[id].receipt_url) \cup {UploadName}
                         ELSE files
  /\ UNCHANGED <<users, expenses, nextId, res, userOps, nreq, categories, provider, route>>

\* PUT /:id, Expense.findByIdAndUpdate(id, update): the update document is
\* applied to the stored expense whatever its status is by now; the answer
\* is 200 also when no document has this id.
PutWrite(k) ==
  /\ reqs[k].op = "update" /\ reqs[k].pc = "write"
  /\ expenses' = IF reqs[k].id \in DOMAIN expenses
                 THEN [expenses EXCEPT ![reqs[k].id] =
                          PutUpdate(@, reqs[k].body, reqs[k].hasFile, reqs[k].name)]
                 ELSE expenses
  /\ Finish(k, 200)
  /\ UNCHANGED <<users, files, nextId, res, userOps, nreq, categories, provider, route>>

\* One expense is created by its owner, who edits and submits it; the
\* manager and the admin review it.
EditRaceNext ==
  \/ \E b \in CreateBodies : nextId = 1 /\ createValidators(b) /\ PostExpense("u1", b, FALSE)
  \/ SubmitExpense("u1", RaceExpense)
  \/ \E u \in {"u2", "u3"}, action \in {"approve", "reject"} :
        ReviewExpense(u, RaceExpense, action)
  \/ \E b \in EditBodies, hasFile \in BOOLEAN : PutRead("u1", RaceExpense, b, hasFile)
  \/ \E k \in DOMAIN reqs : PutWrite(k)

EditRaceSpec == Init /\ [][EditRaceNext]_vars

(* ------------- contexts/AuthContext.tsx and the route guards ----------- *)
\* lib/roleUtils.ts ROLE_LEVELS
ROLE_LEVELS(role) ==
  CASE role = "employee" -> 1
    [] role = "manager" -> 2
    [] role = "admin" -> 3

\* lib/roleUtils.ts hasRoleLevel(userRole, requiredRole)
hasRoleLevel(userRole, requiredRole) == ROLE_LEVELS(userRole) >= ROLE_LEVELS(requiredRole)

\* components/ProtectedRoute.tsx: what the guard renders.
ProtectedRoute(r) ==
  IF r.isLoading THEN "spinner"
  ELSE IF r.user = NoUser THEN "login"
  ELSE IF r.requiredRole # Undef /\ ~hasRoleLevel(r.role, r.requiredRole) THEN "denied"
  ELSE "children"

\* components/auth/ProtectedRoute.tsx: what the guard renders.
AuthProtectedRoute(r) ==
  IF r.isLoading THEN "spinner"
  ELSE IF r.user = NoUser THEN "login"
  ELSE IF r.requiredRole # Undef /\ r.role # r.requiredRole /\ r.role # "admin" THEN "denied"
  ELSE "children"

\* The roles a route may require; a route without requiredRole has Undef.
RequiredRoles == {Undef, "employee", "manager", "admin"}

RouteUnchanged ==
  UNCHANGED <<users, expenses, files, nextId, res, userOps, nreq, categories, reqs, provider>>

\* AuthProvider's effect on mount: the stored session, if any, is restored.
restoreSession(stored) ==
  /\ route.isLoading /\ route.user = NoUser
  /\ route' = [route EXCEPT !.isLoading = FALSE,
                            !.user = stored,
                            !.role = IF stored = NoUser THEN Undef ELSE users[stored].role]
  /\ RouteUnchanged

\* login(email, password) up to the request: setIsLoading(true).
loginStart ==
  /\ ~route.isLoading
  /\ route' = [route EXCEPT !.isLoading = TRUE]
  /\ RouteUnchanged

\* login(email, password) after the answer: the user of the response is
\* set on success, and isLoading is false again in both cases.
loginFinish(u, ok) ==
  /\ route.isLoading
  /\ route' = [route EXCEPT !.isLoading = FALSE,
                            !.user = IF ok THEN u ELSE @,
                            !.role = IF ok THEN users[u].role ELSE @]
  /\ RouteUnchanged

\* logout(): setUser(null).
logout ==
  /\ route.user # NoUser
  /\ route' = [route EXCEPT !.user = NoUser, !.role = Undef]
  /\ RouteUnchanged

\* The browser goes to a route that requires requiredRole.
navigate(requiredRole) ==
  /\ route' = [route EXCEPT !.requiredRole = requiredRole]
  /\ RouteUnchanged

\* The client's session and navigation, with the admin's user updates.
RouteNext ==
  \/ \E stored \in Users \cup {NoUser} : restoreSession(stored)
  \/ loginStart
  \/ \E u \in Users, ok \in BOOLEAN : loginFinish(u, ok)
  \/ logout
  \/ \E requiredRole \in RequiredRoles : navigate(requiredRole)
  \/ \E u \in Users, target \in Users, b \in UserBodies : UpdateUser(u, target, b)

RouteSpec == Init /\ [][RouteNext]_vars

(* -------------------- contexts/ExpenseContext.tsx --------------------- *)
\* The provider's calls are made on pages behind the route guard, by the
\* signed-in user.
SignedIn == ~route.isLoading /\ route.user # NoUser

ClientUnchanged == UNCHANGED <<users, expenses, files, nextId, res, userOps, nreq, categories, route>>

\* The common begin of the provider's functions: setLoading(true), then
\* the request is sent; fetchExpenses and fetchExpense also setError(null).
send(op, id, b, clearsError) ==
  /\ SignedIn
  /\ Len(reqs) < MaxInFlight
  /\ Begin([op |-> op, id |-> id, body |-> b, pc |-> "sent", code |-> 0,
            data |-> << >>, servedAt |-> 0])
  /\ provider' = [provider EXCEPT !.loading = TRUE,
                                  !.error = IF clearsError THEN FALSE ELSE @]
  /\ ClientUnchanged

NoBody == Body(Undef, Undef, Undef, Undef, Undef, Undef, Undef)

providerFetchExpenses == send("fetchExpenses", 0, NoBody, TRUE)
providerFetchExpense(id) == send("fetchExpense", id, NoBody, TRUE)
providerCreateExpense(b) == send("createExpense", 0, b, FALSE)
providerUpdateExpense(id, b) == send("updateExpense", id, b, FALSE)
providerDeleteExpense(id) == send("deleteExpense", id, NoBody, FALSE)
providerSubmitExpense(id) == send("submitExpense", id, NoBody, FALSE)
providerApproveExpense(id) == send("approveExpense", id, NoBody, FALSE)
providerRejectExpense(id) == send("rejectExpense", id, NoBody, FALSE)

\* The answer to request k is attached to it, with the server's order.
answer(k, code, data) ==
  /\ nreq' = nreq + 1
  /\ reqs' = [reqs EXCEPT ![k].pc = "answered", ![k].code = code,
                          ![k].data = data, ![k].servedAt = nreq']

\* The server handles request k of the provider.  GET /expenses answers with
\* page 1 of the listing, limit 10; PUT /expenses/:id/submit, /approve and
\* /reject match no route of the server and are answered 404.
serve(k) ==
  /\ reqs[k].pc = "sent"
  /\ LET r == reqs[k]
         u == route.user
     IN CASE r.op = "fetchExpenses" ->
               /\ IF authenticateToken(u) THEN answer(k, 200, ListExpenses(u, 1, 10))
                  ELSE answer(k, 401, << >>)
               /\ UNCHANGED <<users, expenses, files, nextId, res, userOps>>
          [] r.op = "fetchExpense" ->
               /\ answer(k, IF ~authenticateToken(u) THEN 401
                            ELSE IF r.id \notin DOMAIN expenses THEN 404
                            ELSE IF ~canAccess(u, expenses[r.id]) THEN 403
                            ELSE 200, <<r.id>>)
               /\ UNCHANGED <<users, expenses, files, nextId, res, userOps>>
          [] r.op = "createExpense" ->
               /\ PostExpenseHandler(u, r.body, FALSE)
               /\ answer(k, res'.code, <<res'.id>>)
          [] r.op = "updateExpense" ->
               /\ PutExpenseHandler(u, r.id, r.body, FALSE)
               /\ answer(k, res'.code, <<r.id>>)
          [] r.op = "deleteExpense" ->
               /\ DeleteExpenseHandler(u, r.id)
               /\ answer(k, res'.code, << >>)
          [] OTHER ->
               /\ answer(k, 404, << >>)
               /\ UNCHANGED <<users, expenses, files, nextId, res, userOps>>
  /\ UNCHANGED <<categories, provider, route>>

\* prev.map((e) => (e._id === id ? updated : e))
mapUpdated(prev, id, updated) ==
  [i \in DOMAIN prev |-> IF prev[i] = id THEN updated ELSE prev[i]]

\* prev.filter((e) => e._id !== id)
RECURSIVE filterOut(_, _)
filterOut(prev, id) ==
  IF prev = << >> THEN << >>
  ELSE IF Head(prev) = id THEN filterOut(Tail(prev), id)
  ELSE <<Head(prev)>> \o filterOut(Tail(prev), id)

\* The answer to request k arrives: the code after the await, or the catch
\* block, and then finally setLoading(false).  The list holds the _id of
\* its entries.
complete(k) ==
  /\ reqs[k].pc = "answered"
  /\ LET r == reqs[k]
         ok == r.code \in {200, 201}
         prev == provider.expenses
     IN provider' =
          [provider EXCEPT
             !.loading = FALSE,
             !.error = IF ok THEN @ ELSE TRUE,
             !.expenses =
                IF ~ok THEN @
                ELSE CASE r.op = "fetchExpenses" -> r.data
                       [] r.op = "fetchExpense" -> @
                       [] r.op = "createExpense" -> r.data \o prev
                       [] r.op = "deleteExpense" -> filterOut(prev, r.id)
                       [] OTHER -> mapUpdated(prev, r.id, r.data[1]),
             !.currentExpense =
                IF ~ok THEN @
                ELSE CASE r.op = "fetchExpenses" -> @
                       [] r.op = "fetchExpense" -> r.id
                       [] r.op \in {"createExpense", "updateExpense"} -> 0
                       [] r.op = "deleteExpense" -> @
                       [] OTHER -> r.id]
  /\ reqs' = [reqs EXCEPT ![k].pc = "done"]
  /\ ClientUnchanged

\* The signed-in user's browser and the server behind it.
ClientNext ==
  \/ \E stored \in Users : restoreSession(stored)
  \/ providerFetchExpenses
  \/ providerFetchExpense(RaceExpense)
  \/ \E b \in CreateBodies : providerCreateExpense(b)
  \/ \E b \in EditBodies : providerUpdateExpense(RaceExpense, b)
  \/ providerDeleteExpense(RaceExpense)
  \/ providerSubmitExpense(RaceExpense)
  \/ providerApproveExpense(RaceExpense)
  \/ providerRejectExpense(RaceExpense)
  \/ \E k \in DOMAIN reqs : serve(k)
  \/ \E k \in DOMAIN reqs : complete(k)

ClientSpec == Init /\ [][ClientNext]_vars

(* ------------------------------ properties ---------------------------- *)
SeqToSet(q) == { q[k] : k \in 1..Len(q) }

\* The expenses a user owns.
Owned(u) == { i \in DOMAIN expenses : expenses[i].user_id = u }

\* The access scope as the specification states it: admin everything,
\* manager the department, employee the own records.
InScope(u, e) ==
  CASE users[u].role = "admin" -> TRUE
    [] users[u].role = "manager" -> e.user_department = users[u].department
    [] users[u].role = "employee" -> e.user_id = u

\* The content fields of an expense.
Content(e) == <<e.title, e.amount, e.category, e.description, e.receipt_url>>

LegalTransitions ==
  { <<"draft", "pending">>, <<"pending", "approved">>, <<"pending", "rejected">> }

\* C1: every change of a stored expense's status is draft->pending,
\* pending->approved or pending->rejected; nothing moves backward, skips a
\* state or sets another value.
C1_StatusMovesForward ==
  [][\A id \in DOMAIN expenses \cap DOMAIN expenses' :
        expenses'[id].status # expenses[id].status
          => <<expenses[id].status, expenses'[id].status>> \in LegalTransitions]_vars

\* C2: a status becomes approved or rejected only by a review of a pending
\* expense, performed by an admin or by a manager of the expense's department.
C2_DecidedOnlyByReview ==
  [][\A id \in DOMAIN expenses' :
        ( /\ expenses'[id].status \in {"approved", "rejected"}
          /\ (id \notin DOMAIN expenses \/ expenses[id].status # expenses'[id].status) )
          => /\ id \in DOMAIN expenses
             /\ expenses[id].status = "pending"
             /\ \E u \in Users, a \in {"approve", "reject"} :
                   /\ ReviewExpense(u, id, a)
                   /\ \/ users[u].role = "admin"
                      \/ /\ users[u].role = "manager"
                         /\ users[u].department = expenses[id].user_department]_vars

\* C3: for an employee the unfiltered listing, all pages together, holds
\* exactly the employee's own expenses, each once; so does the client query.
C3_EmployeeListing ==
  \A u \in Users : users[u].role = "employee" =>
    /\ authenticateToken(u) =>
         \A limit \in PageLimits :
            /\ SeqToSet(AllPages(u, limit)) = Owned(u)
            /\ Len(AllPages(u, limit)) = Cardinality(Owned(u))
    /\ getExpenses(u) = Owned(u)

\* An active employee owns an expense while another user's expense is stored
\* as well: page 1 at limit 1 holds the own expense and page 2 is empty.
C3_Witness ==
  \E u \in Users :
    /\ users[u].role = "employee" /\ authenticateToken(u)
    /\ Cardinality(Owned(u)) = 1
    /\ DOMAIN expenses \ Owned(u) # {}
    /\ Len(ListExpenses(u, 1, 1)) = 1
    /\ Len(ListExpenses(u, 2, 1)) = 0

\* C4: for a manager the server scope and the client filter both select
\* exactly the expenses whose user_department is the manager's department.
C4_ManagerScope ==
  \A m \in Users : users[m].role = "manager" =>
    LET ofDept == { i \in DOMAIN expenses :
                      expenses[i].user_department = users[m].department }
    IN /\ Find(buildRoleScope(m)) = ofDept
       /\ getExpensesByRole(m, DOMAIN expenses) = ofDept

\* C5: every read entry point (list, get-by-id, per-user listing, stats
\* summary, stats monthly) exposes or counts an expense to a user exactly when
\* the expense is in the user's scope.
C5_UniformScope ==
  \A u \in Users, id \in DOMAIN expenses : authenticateToken(u) =>
    LET e == expenses[id]
    IN /\ (\E limit \in PageLimits : id \in SeqToSet(AllPages(u, limit))) <=> InScope(u, e)
       /\ canAccess(u, e) <=> InScope(u, e)
       /\ (\E userId \in Users : id \in getUserExpenses(userId)) <=> InScope(u, e)
       /\ (id \in StatsMatch(u)) <=> InScope(u, e)
       /\ totalExpenses(u) = Cardinality({ i \in DOMAIN expenses : InScope(u, expenses[i]) })

\* C6: the content of an expense (title, amount, category, description,
\* receipt) changes only by a request of its owner while the status is draft,
\* and an edit by anybody else is rejected.
C6_OnlyOwnerEditsDraft ==
  [][/\ \A id \in DOMAIN expenses \cap DOMAIN expenses' :
          Content(expenses'[id]) # Content(expenses[id])
            => /\ expenses[id].status = "draft"
               /\ \E u \in Users :
                    /\ u = expenses[id].user_id
                    /\ \/ \E b \in UpdateBodies, f \in BOOLEAN : PutExpense(u, id, b, f)
                       \/ DeleteReceipt(u, id)
     /\ \A u \in Users, id \in DOMAIN expenses, b \in UpdateBodies, f \in BOOLEAN :
          (PutExpense(u, id, b, f) /\ expenses[id].user_id # u)
            => res'.code # 200 /\ expenses' = expenses]_vars

\* The requester may delete: owner of a draft, or admin.
MayDelete(u, e) == (e.user_id = u /\ e.status = "draft") \/ users[u].role = "admin"

\* C7: a delete request removes the expense exactly when the requester is
\* the owner of a draft or an admin; otherwise it fails with an
\* authorization/state error and record and file stay; on success record and
\* receipt file are gone.
C7_DeleteGuard ==
  [][/\ \A u \in Users, id \in DOMAIN expenses :
          (DeleteExpense(u, id) /\ authenticateToken(u))
            => IF MayDelete(u, expenses[id])
               THEN /\ id \notin DOMAIN expenses'
                    /\ expenses[id].receipt_url \notin files'
               ELSE /\ res'.code \in {400, 403, 409}
                    /\ expenses' = expenses
                    /\ files' = files
     /\ \A id \in DOMAIN expenses \ DOMAIN expenses' :
          /\ \E u \in Users : DeleteExpense(u, id) /\ MayDelete(u, expenses[id])
          /\ expenses[id].receipt_url \notin files']_vars

\* C8: submit succeeds only for the owner of a draft and sets the status to
\* pending; by a non-owner it fails with 403, by the owner on a non-draft
\* with 400, and a failed submit leaves everything stored unchanged.
C8_SubmitGuard ==
  [][\A u \in Users, id \in DOMAIN expenses :
        (res'.op = "submit" /\ SubmitExpense(u, id) /\ authenticateToken(u))
          => IF expenses[id].user_id = u /\ expenses[id].status = "draft"
             THEN /\ res'.code = 200
                  /\ expenses' = [expenses EXCEPT ![id].status = "pending"]
             ELSE /\ res'.code = IF expenses[id].user_id # u THEN 403 ELSE 400
                  /\ UNCHANGED <<expenses, files, users>>]_vars

\* The owner's submit of an expense that is already decided or paid was
\* answered 400.
C8_Witness ==
  /\ res.op = "submit" /\ res.code = 400
  /\ res.id \in DOMAIN expenses
  /\ expenses[res.id].user_id = res.user
  /\ expenses[res.id].status \in {"approved", "rejected", "paid"}

\* C9: a review of an expense that is not pending fails with 400 for a
\* manager and for an admin alike and changes nothing.
C9_ReviewNeedsPending ==
  [][\A u \in Users, id \in DOMAIN expenses, a \in {"approve", "reject"} :
        ( /\ res'.op = "review"
          /\ ReviewExpense(u, id, a)
          /\ authenticateToken(u)
          /\ users[u].role \in {"manager", "admin"}
          /\ expenses[id].status # "pending" )
          => /\ res'.code = 400
             /\ ~canApprove(expenses[id], users[u].role)
             /\ UNCHANGED <<expenses, files, users>>]_vars

\* A manager's review of an approved expense of the own department was
\* answered 400.
C9_Witness ==
  /\ res.op = "review" /\ res.code = 400
  /\ res.user \in Users
  /\ users[res.user].role = "manager"
  /\ res.id \in DOMAIN expenses
  /\ expenses[res.id].status = "approved"
  /\ expenses[res.id].user_department = users[res.user].department

\* C10: a created expense starts as draft, owned by the authenticated
\* requester, with the requester's current department, whatever the body
\* carries.
C10_CreateDefaults ==
  [][\A id \in DOMAIN expenses' \ DOMAIN expenses :
        /\ expenses'[id].status = "draft"
        /\ res'.user \in Users
        /\ expenses'[id].user_id = res'.user
        /\ expenses'[id].user_department = users[res'.user].department]_vars

\* C11: a status becomes paid only from approved, and the status of a paid
\* expense never changes again.
C11_PaidFromApprovedOnly ==
  [][/\ \A id \in DOMAIN expenses' :
          ( /\ expenses'[id].status = "paid"
            /\ (id \notin DOMAIN expenses \/ expenses[id].status # "paid") )
            => id \in DOMAIN expenses /\ expenses[id].status = "approved"
     /\ \A id \in DOMAIN expenses \cap DOMAIN expenses' :
          expenses[id].status = "paid" => expenses'[id].status = "paid"]_vars

\* The receipt file an expense refers to is on disk.
ReceiptOnDisk(e, fs) == e.receipt_url # 0 /\ e.receipt_url \in fs

\* C12: an edit, submit, review, receipt-removal or delete request that is
\* answered with an error leaves the stored expense and the receipt file it
\* refers to as they were.
C12_ErrorLeavesRecordAndFile ==
  [][( /\ res'.op \in {"update", "submit", "review", "removeReceipt", "delete"}
       /\ res'.code >= 400 )
        => /\ expenses' = expenses
           /\ \A id \in DOMAIN expenses :
                ReceiptOnDisk(expenses[id], files') = ReceiptOnDisk(expenses[id], files)]_vars

\* C13: a successful approve or reject stores the reviewer and the time of
\* the review, so every approved or rejected expense names a reviewer who is
\* a manager or an admin.
C13_ReviewerRecorded ==
  [][/\ (res'.op = "review" /\ res'.code = 200)
          => /\ expenses'[res'.id].reviewed_by = res'.user
             /\ expenses'[res'.id].reviewed_at # NoDate
     /\ \A id \in DOMAIN expenses' :
          expenses'[id].status \in {"approved", "rejected"}
            => /\ expenses'[id].reviewed_by \in Users
               /\ users'[expenses'[id].reviewed_by].role \in {"manager", "admin"}]_vars

\* C14: every request is authorized with the requester's role, department and
\* active flag as stored when the request arrives: an inactive user gets 401
\* and changes nothing, an active user never gets 401, the user
\* administration routes act only for a stored admin, and a review is
\* refused with 403 exactly for a stored employee or a stored manager of
\* another department and succeeds only for a stored admin or a stored
\* manager of the expense's department.
C14_CurrentUserRecordDecides ==
  [][res'.user \in Users =>
       LET u == res'.user
           id == res'.id
       IN /\ ~users[u].isActive => res'.code = 401 /\ UNCHANGED <<users, expenses, files>>
          /\ users[u].isActive => res'.code # 401
          /\ res'.op \in {"updateUser", "deactivateUser", "activateUser"}
               => (res'.code = 403 <=> (users[u].isActive /\ users[u].role # "admin"))
          /\ (res'.op = "review" /\ res'.code = 200)
               => \/ users[u].role = "admin"
                  \/ /\ users[u].role = "manager"
                     /\ expenses[id].user_department = users[u].department
          /\ (res'.op = "review" /\ res'.code = 403)
               => \/ users[u].role = "employee"
                  \/ /\ users[u].role = "manager"
                     /\ expenses[id].user_department # users[u].department]_vars

\* u1, seeded as an employee and promoted to manager by the admin, has
\* reviewed an expense successfully.
C14_Witness ==
  /\ res.op = "review" /\ res.code = 200 /\ res.user = "u1"
  /\ users["u1"].role = "manager"

\* C15: the user_department of a stored expense never changes.
C15_DepartmentFixedAtCreation ==
  [][\A id \in DOMAIN expenses \cap DOMAIN expenses' :
        expenses'[id].user_department = expenses[id].user_department]_vars

\* C16: every stored expense has an amount strictly greater than 0, and a
\* create or edit request whose amount is not greater than 0 is answered 400
\* and writes nothing.
C16_AmountPositive ==
  [][/\ \A id \in DOMAIN expenses' : expenses'[id].amount > 0
     /\ \A u \in Users, b \in CreateBodies \cup UpdateBodies, f \in BOOLEAN :
          ( /\ b.amount # Undef /\ ~(parseFloat(b.amount) > 0)
            /\ authenticateToken(u)
            /\ \/ PostExpense(u, b, f)
               \/ \E id \in ExpenseIds : PutExpense(u, id, b, f) )
            => res'.code = 400 /\ UNCHANGED <<expenses, files>>]_vars

\* C17: a create or edit request that fails leaves no file behind, so every
\* receipt file on disk is referenced by a stored expense.
C17_NoOrphanFiles ==
  [][/\ (res'.op \in {"create", "update"} /\ res'.code >= 400) => files' \subseteq files
     /\ files' \subseteq { expenses'[i].receipt_url : i \in DOMAIN expenses' }]_vars

\* C18: for every user the summary's total count and amount equal the sums
\* over the per-status rows and over the per-category rows, in the server's
\* stats summary and in the client's dashboard statistics.
C18_TotalsEqualSubtotals ==
  \A u \in Users : authenticateToken(u) =>
    LET S == StatsMatch(u)
        d == getDashboardStats(u, Find(buildRoleScope(u)))
        c == getCategoryData(u, Find(buildRoleScope(u)))
    IN /\ totals(u).totalExpenses = Cardinality(S)
       /\ totals(u).totalAmount = SumAmount(S)
       /\ SumCount(categoryStats(u)) = totals(u).totalExpenses
       /\ SumTotalAmount(categoryStats(u)) = totals(u).totalAmount
       /\ d.totalExpenses = d.pendingExpenses + d.approvedExpenses
                              + d.rejectedExpenses + d.draftExpenses
       /\ SumCount(c) = d.totalExpenses
       /\ SumTotalAmount(c) = d.totalAmount

\* The expenses of S created in the calendar month (y, m).
CreatedIn(S, y, m) ==
  { i \in S : year(expenses[i].createdAt) = y /\ month(expenses[i].createdAt) = m }

\* C19: the monthly aggregation, on the server and in the client, has one
\* bucket per calendar month of a year in which an expense of the scope was
\* created, and the bucket's total, approved and pending figures are the sums
\* over exactly the expenses created in that month of that year.
C19_MonthlyBuckets ==
  \A u \in Users : authenticateToken(u) =>
    LET S == StatsMatch(u)
        months == { <<year(expenses[i].createdAt), month(expenses[i].createdAt)>> : i \in S }
        ofMonth(k) == CreatedIn(S, k[1], k[2])
        expected(k) ==
          [expenses |-> SumAmount(ofMonth(k)),
           approved |-> SumAmount({ i \in ofMonth(k) : expenses[i].status = "approved" }),
           pending |-> SumAmount({ i \in ofMonth(k) : expenses[i].status = "pending" })]
        server == monthlyStats(u)
        client == getMonthlyData(u, S)
    IN /\ DOMAIN server = months
       /\ \A k \in months : server[k] = expected(k)
       /\ Cardinality(DOMAIN client) = Cardinality(months)
       /\ \A k \in months :
            client[toLocaleMonthShort(expenses[CHOOSE i \in ofMonth(k) : TRUE].createdAt)]
              = expected(k)

\* The users in a user's scope: all for an admin, the department for a
\* manager, the own record for an employee.
UsersInScope(u) ==
  CASE users[u].role = "admin" -> Users
    [] users[u].role = "manager" -> { v \in Users : users[v].department = users[u].department }
    [] users[u].role = "employee" -> {u}

\* C20: the team listing of the server and the two client user filters return
\* exactly the users in the requester's scope.
C20_UserScope ==
  \A u \in Users : authenticateToken(u) =>
    /\ TeamCode(u) = 200 /\ teamMembers(u) = UsersInScope(u)
    /\ getUsersByRole(u) = UsersInScope(u)
    /\ getTeamMembersByRole(u, Users) = UsersInScope(u)

\* Two addresses are equal when compared without case.
SameEmail(a, b) == toLowerCase(a) = toLowerCase(b)

\* C21: no two user records have addresses that are equal without case, and
\* a register or update that completes while another record holds its
\* address (compared without case) fails and leaves the users as they were.
C21_EmailUnique ==
  [][/\ \A a, b \in DOMAIN users' :
          a # b => ~SameEmail(users'[a].email, users'[b].email)
     /\ \A k \in DOMAIN reqs :
          ( /\ reqs[k].pc = "save" /\ reqs'[k].pc = "done"
            /\ \E v \in DOMAIN users \ {reqs[k].target} :
                  SameEmail(users[v].email, reqs[k].email) )
            => reqs'[k].code >= 400 /\ users' = users]_vars

\* Two registrations of the same new address both passed findOne; one was
\* stored and the other one failed at the save.
C21_Witness ==
  \E j, k \in DOMAIN reqs :
    /\ j # k
    /\ reqs[j].op = "register" /\ reqs[k].op = "register"
    /\ SameEmail(reqs[j].email, reqs[k].email)
    /\ reqs[j].code = 201 /\ reqs[k].code = 500
    /\ Cardinality({ v \in DOMAIN users : SameEmail(users[v].email, reqs[k].email) }) = 1

\* Request k got its answer in this step.
Answered(k) ==
  /\ k \in DOMAIN reqs' /\ reqs'[k].pc = "done"
  /\ k \notin DOMAIN reqs \/ reqs[k].pc # "done"

\* C22: no two category records, active or not, have the same internal name,
\* and a create whose lower-cased name is already stored fails and stores
\* nothing.
C22_CategoryNameUnique ==
  [][/\ \A i, j \in DOMAIN categories' :
          i # j => categories'[i].name # categories'[j].name
     /\ \A k \in DOMAIN reqs' :
          ( /\ Answered(k) /\ reqs'[k].op = "createCategory"
            /\ \E i \in DOMAIN categories :
                  categories[i].name = toLowerCase(reqs'[k].name) )
            => reqs'[k].code >= 400 /\ categories' = categories]_vars

\* Two creates of the same new name both passed findOne; one was stored and
\* the other one failed at the save.
C22_Witness ==
  \E j, k \in DOMAIN reqs :
    /\ j # k
    /\ reqs[j].op = "createCategory" /\ reqs[k].op = "createCategory"
    /\ toLowerCase(reqs[j].name) = toLowerCase(reqs[k].name)
    /\ reqs[j].code = 201 /\ reqs[k].code = 500
    /\ Cardinality({ i \in DOMAIN categories :
                       categories[i].name = toLowerCase(reqs[k].name) }) = 1

\* C23: a successful delete keeps the category record and only clears its
\* active flag, the category is then missing from the listing, no expense is
\* changed, no category record ever disappears, and the category collection
\* changes only by a request of an admin.
C23_CategorySoftDelete ==
  [][/\ \A k \in DOMAIN reqs' :
          (Answered(k) /\ reqs'[k].op = "deleteCategory" /\ reqs'[k].code = 200)
            => /\ reqs'[k].id \in DOMAIN categories'
               /\ categories' = [categories EXCEPT ![reqs'[k].id].isActive = FALSE]
               /\ reqs'[k].id \notin listCategories'
               /\ expenses' = expenses
     /\ DOMAIN categories \subseteq DOMAIN categories'
     /\ categories' # categories
          => \E k \in DOMAIN reqs' : Answered(k) /\ users[reqs'[k].user].role = "admin"]_vars

\* A category that a stored expense names was deleted: its record is still
\* there, inactive.
C23_Witness ==
  \E k \in DOMAIN reqs :
    /\ reqs[k].op = "deleteCategory" /\ reqs[k].code = 200
    /\ reqs[k].id \in DOMAIN categories
    /\ ~categories[reqs[k].id].isActive
    /\ \E i \in DOMAIN expenses :
          toLowerCase(expenses[i].category) = categories[reqs[k].id].name

\* C24: no user-management operation removes a user record: every user that
\* has a record keeps one.
C24_UsersNeverRemoved == [][DOMAIN users \subseteq DOMAIN users']_vars

\* C25: a successful add-comment request, and a successful review that
\* carries a comment, appends exactly one entry (the text, author = the
\* actor) to the stored expense, and the comments an expense has stay a
\* prefix of its comment list.
C25_CommentsAppended ==
  [][/\ \A u \in Users, id \in ExpenseIds, text \in CommentTexts :
          (AddComment(u, id, text) /\ res'.code = 200)
            => expenses'[id].comments =
                 Append(expenses[id].comments, [text |-> text, author |-> u])
     /\ \A u \in Users, id \in ExpenseIds, action \in {"approve", "reject"} :
          (ReviewWithComment(u, id, action, "ok") /\ res'.code = 200)
            => expenses'[id].comments =
                 Append(expenses[id].comments, [text |-> "ok", author |-> u])
     /\ \A id \in DOMAIN expenses \cap DOMAIN expenses' :
          /\ Len(expenses'[id].comments) >= Len(expenses[id].comments)
          /\ SubSeq(expenses'[id].comments, 1, Len(expenses[id].comments))
               = expenses[id].comments]_vars

\* C26: a review that read the expense as pending is answered with success
\* when it writes, and the stored status becomes the one of its action,
\* also when another review has written in between: the later write wins.
C26_LastReviewWins ==
  [][\A k \in DOMAIN reqs :
        (reqs[k].op = "review" /\ reqs[k].pc = "save" /\ Answered(k))
          => /\ reqs'[k].code = 200
             /\ expenses'[reqs[k].id].status =
                  (IF reqs[k].action = "approve" THEN "approved" ELSE "rejected")]_vars

\* Two reviews of one expense were both answered with success, one approving
\* and one rejecting, and the expense ended up rejected.
C26_Witness ==
  \E j \in DOMAIN reqs, k \in DOMAIN reqs :
    /\ reqs[j].op = "review" /\ reqs[k].op = "review"
    /\ reqs[j].id = reqs[k].id
    /\ reqs[j].code = 200 /\ reqs[k].code = 200
    /\ reqs[j].action = "approve" /\ reqs[k].action = "reject"
    /\ reqs[j].id \in DOMAIN expenses
    /\ expenses[reqs[j].id].status = "rejected"

\* C27: when an edit writes to an expense whose stored status has left
\* draft, the write changes none of title, amount, category, description
\* and receipt, and it does not make the status draft again.
C27_EditKeepsTransition ==
  [][\A k \in DOMAIN reqs :
        ( /\ reqs[k].op = "update" /\ reqs[k].pc = "write" /\ Answered(k)
          /\ reqs[k].id \in DOMAIN expenses
          /\ expenses[reqs[k].id].status # "draft" )
          => /\ Content(expenses'[reqs[k].id]) = Content(expenses[reqs[k].id])
             /\ expenses'[reqs[k].id].status # "draft"]_vars

\* C28: for a signed-in user on a route that requires a role, each of the
\* two guards renders the page exactly when the level of the user's role is
\* at least the level of the required role.
C28_GuardsAgree ==
  (~route.isLoading /\ route.user # NoUser /\ route.requiredRole # Undef)
    => /\ (ProtectedRoute(route) = "children")
            <=> (ROLE_LEVELS(route.role) >= ROLE_LEVELS(route.requiredRole))
       /\ (AuthProtectedRoute(route) = "children")
            <=> (ROLE_LEVELS(route.role) >= ROLE_LEVELS(route.requiredRole))

\* The requests of the provider that are not completed yet.
InFlight == { k \in DOMAIN reqs : reqs[k].pc # "done" }

\* The successful fetches of the list, and the one the server answered last.
Fetches == { k \in DOMAIN reqs : reqs[k].op = "fetchExpenses" /\ reqs[k].code = 200 }
LastFetch == CHOOSE f \in Fetches : \A g \in Fetches : reqs[g].servedAt <= reqs[f].servedAt

\* C29: the provider's list never holds one _id twice; and when fetches,
\* creations and updates were the only requests and all have completed, the
\* list holds every expense the last fetch returned and every expense
\* created after that fetch.
C29_ListConsistent ==
  /\ \A i \in DOMAIN provider.expenses, j \in DOMAIN provider.expenses :
        i # j => provider.expenses[i] # provider.expenses[j]
  /\ ( /\ InFlight = {}
       /\ Fetches # {}
       /\ \A k \in DOMAIN reqs :
             reqs[k].op \in {"fetchExpenses", "createExpense", "updateExpense"} )
       => /\ SeqToSet(reqs[LastFetch].data) \subseteq SeqToSet(provider.expenses)
          /\ \A k \in DOMAIN reqs :
                ( /\ reqs[k].op = "createExpense" /\ reqs[k].code = 201
                  /\ reqs[k].servedAt > reqs[LastFetch].servedAt )
                  => reqs[k].data[1] \in SeqToSet(provider.expenses)

\* C30: loading is true while a request of the provider is in flight, and
\* false when every request that was started has completed.
C30_LoadingWhileInFlight ==
  /\ InFlight # {} => provider.loading
  /\ InFlight = {} => ~provider.loading

====
